---- MODULE Spec2Model ----
(***************************************************************************)
(* Model of go-aof (src/aof.go, with the reducers of src/unnamed/part_003  *)
(* and the Entry accessors of src/unnamed/part_000): an append-only file   *)
(* of length-prefixed frames, with append, random read, traversal and      *)
(* repair of a torn last frame.  The stream is modelled byte by byte,      *)
(* together with the buffered reader and the buffered writer that sit      *)
(* between the Appender and the file.                                      *)
(***************************************************************************)
EXTENDS Integers, Sequences, FiniteSets, TLC

\* ------------------------------------------------------------------ bounds
\* Config.MaxEntrySize of the modelled log (the default is 65535).
MaxEntrySize == 3
\* Capacity of the bufio.Reader around the file (bufio's default is 4096).
ReaderBufSize == 4
\* Capacity of the bufio.Writer around the file (bufio's default is 4096).
WriterBufSize == 4
\* Longest stream the model lets an operation produce.
MaxFileLen == 10
\* Longest batch handed to AppendBulk.
MaxBatch == 2
\* Largest record index at which a reducer cuts off or fails.
MaxCut == 2
\* Times the file is opened again after the first Open.
MaxOpens == 2
\* Writes to the file that fail in one behaviour.
MaxFaults == 2
\* Times Close is called on one Appender.
MaxClose == 2
\* Goroutines that call one Appender concurrently.
NumProcs == 2
\* Calls each of them makes.
MaxCalls == 2
\* Reads of the file that succeed in a call before one fails.
MaxReadFail == 2
\* Largest base offset an Appender is configured with.
MaxBase == 2
\* Largest payload size of the frames of a stream a traversal is started on.
MaxStreamSize == 1
\* Number of values of the traversal's offset counter.
OffModulus == 16

\* --------------------------------------------------------------- constants
fIncompleteEntry == 1
fCompleteEntry == 2
DefaultBaseOffset == 0

\* ----------------------------------------------------------------- helpers
Min(a, b) == IF a < b THEN a ELSE b

Zeros(n) == [i \in 1..n |-> 0]

Take(s, n) == SubSeq(s, 1, Min(n, Len(s)))

Drop(s, n) == SubSeq(s, n + 1, Len(s))

\* copy(dst, src): src over the front of dst, dst's tail kept.
Copy(dst, src) == Take(src, Len(dst)) \o Drop(dst, Len(src))

\* ------------------------------------------------------------- frame codec
entrySizeLen(maxEntrySize) == IF maxEntrySize < 65536 THEN 2 ELSE 4

HeaderLen == entrySizeLen(MaxEntrySize)

readInt(b) ==
    IF Len(b) = 2
    THEN b[1] + 256 * b[2]
    ELSE b[1] + 256 * b[2] + 65536 * b[3] + 16777216 * b[4]

writeInt(len, n) ==
    IF len = 2
    THEN << n % 256, (n \div 256) % 256 >>
    ELSE << n % 256, (n \div 256) % 256, (n \div 65536) % 256, (n \div 16777216) % 256 >>

\* ------------------------------------------------------------------ stream
\* The state of the I/O stack during one operation:
\*   file   the bytes of the file        pos    the file offset
\*   rbuf   unread bytes of the reader   wbuf   unflushed bytes of the writer
\*   werr   the writer's sticky error
\*   wfail  file writes that succeed before one fails (-1: none fails)
\*   wpart  bytes the failing write still puts into the file
\*   rfail  file reads that succeed before one fails (-1: none fails)
\*   rstuck every read after the failing one fails too
\*   nwrite file writes performed so far, wfailed: one of them failed
\*   rfailed a read of the file failed

\* os.File.Write on a file opened with O_APPEND: the bytes go to the end.
fWrite(io, p) ==
    IF io.wfail = 0
    THEN LET j == Min(io.wpart, Len(p) - 1)
             f == io.file \o Take(p, j)
         IN  [n |-> j, err |-> TRUE,
              io |-> [io EXCEPT !.file = f, !.pos = Len(f),
                                !.nwrite = @ + 1, !.wfailed = TRUE]]
    ELSE LET f == io.file \o p
         IN  [n |-> Len(p), err |-> FALSE,
              io |-> [io EXCEPT !.file = f, !.pos = Len(f), !.nwrite = @ + 1,
                                !.wfail = IF @ > 0 THEN @ - 1 ELSE @]]

\* bufio.Writer.Flush
wFlush(io) ==
    IF io.werr THEN [err |-> TRUE, io |-> io]
    ELSE IF io.wbuf = << >> THEN [err |-> FALSE, io |-> io]
    ELSE LET r == fWrite(io, io.wbuf)
         IN  IF r.err
             THEN [err |-> TRUE,
                   io |-> [r.io EXCEPT !.wbuf = Drop(io.wbuf, r.n), !.werr = TRUE]]
             ELSE [err |-> FALSE, io |-> [r.io EXCEPT !.wbuf = << >>]]

\* bufio.Writer.Write
RECURSIVE wWrite(_, _)
wWrite(io, p) ==
    LET avail == WriterBufSize - Len(io.wbuf)
    IN  IF Len(p) > avail /\ ~io.werr
        THEN IF io.wbuf = << >>
             THEN LET r == fWrite(io, p)
                      t == wWrite([r.io EXCEPT !.werr = r.err], Drop(p, r.n))
                  IN  [t EXCEPT !.n = @ + r.n]
             ELSE LET f == wFlush([io EXCEPT !.wbuf = @ \o Take(p, avail)])
                      t == wWrite(f.io, Drop(p, avail))
                  IN  [t EXCEPT !.n = @ + avail]
        ELSE IF io.werr
        THEN [n |-> 0, err |-> TRUE, io |-> io]
        ELSE [n |-> Len(p), err |-> FALSE, io |-> [io EXCEPT !.wbuf = @ \o p]]

\* bufio.Writer.WriteByte
wWriteByte(io, c) ==
    IF io.werr THEN [err |-> TRUE, io |-> io]
    ELSE IF WriterBufSize - Len(io.wbuf) <= 0
    THEN LET f == wFlush(io)
         IN  IF f.err THEN [err |-> TRUE, io |-> f.io]
             ELSE [err |-> FALSE, io |-> [f.io EXCEPT !.wbuf = @ \o << c >>]]
    ELSE [err |-> FALSE, io |-> [io EXCEPT !.wbuf = @ \o << c >>]]

\* os.File.Read: up to n bytes from the file offset, io.EOF when none is left.
\* A failing read returns no bytes and an error; the reads after it succeed
\* again (while they keep failing, a traversal leaves its loop only when the
\* reducer stops it).
fRead(io, n) ==
    IF io.rfail = 0
    THEN [data |-> << >>, err |-> "EIO",
          io |-> [io EXCEPT !.rfail = IF io.rstuck THEN 0 ELSE -1, !.rfailed = TRUE]]
    ELSE LET avail == IF io.pos < Len(io.file) THEN Len(io.file) - io.pos ELSE 0
             k == Min(n, avail)
         IN  [data |-> SubSeq(io.file, io.pos + 1, io.pos + k),
              err |-> IF k = 0 THEN "EOF" ELSE "nil",
              io |-> [io EXCEPT !.pos = @ + k,
                                !.rfail = IF @ > 0 THEN @ - 1 ELSE @]]

\* bufio.Reader.Read into a buffer of n > 0 bytes: buffered bytes first; with an
\* empty buffer one read of the file, directly into the caller's buffer when
\* that is at least as large as the reader's.
rRead(io, n) ==
    IF io.rbuf # << >>
    THEN [data |-> Take(io.rbuf, n), err |-> "nil",
          io |-> [io EXCEPT !.rbuf = Drop(@, n)]]
    ELSE IF n >= ReaderBufSize
    THEN fRead(io, n)
    ELSE LET r == fRead(io, ReaderBufSize)
         IN  IF r.data = << >>
             THEN r
             ELSE [data |-> Take(r.data, n), err |-> "nil",
                   io |-> [r.io EXCEPT !.rbuf = Drop(r.data, n)]]

\* Appender.seek: position the file and reset the reader.
seek(io, baseOffset, off) == [io EXCEPT !.pos = baseOffset + off, !.rbuf = << >>]

\* ------------------------------------------------------------------ errors
Nil == "nil"
EOF == "EOF"
ErrUnexpectedReadError == "ErrUnexpectedReadError"
ErrCompletingLastEntry == "ErrCompletingLastEntry"
ErrLastEntryIncomplete == "ErrLastEntryIncomplete"
ErrInvalidArguments == "ErrInvalidArguments"
ErrUnexpectedWriteErr == "ErrUnexpectedWriteErr"
ErrEntryExceedsMaxSize == "ErrEntryExceedsMaxSize"
ErrAppenderClosed == "ErrAppenderClosed"
\* the errors the caller's callbacks return: that of a FilterFn, that of any other
ErrFilter == "ErrFilter"
ErrReducer == "ErrReducer"

\* ------------------------------------------------------------------- Entry
\* &Entry{off: off}
NewEntry(off) == [off |-> off, size |-> 0, bytes |-> << >>, incomplete |-> FALSE]

\* Entry.Bytes
Bytes(e) == Take(e.bytes, e.size)

\* What a caller sees of an entry through Offset, Size, Bytes and Incomplete.
View(e) == [off |-> e.off, size |-> e.size, bytes |-> Bytes(e),
            incomplete |-> e.incomplete]

\* Entry.read, the payload loop: every Read fills e.bytes from its start and
\* its count replaces rc.
RECURSIVE readPayload(_, _, _, _)

\* One iteration of the payload loop, r being what app.r.Read returned.
readPayloadStep(e, r) ==
    IF r.err # Nil /\ r.err # EOF
    THEN [fail |-> TRUE, e |-> e, io |-> r.io, rc |-> Len(r.data), err |-> r.err]
    ELSE readPayload([e EXCEPT !.bytes = Copy(@, r.data)], r.io, Len(r.data), r.err)

readPayload(e, io, rc, err) ==
    IF rc < e.size /\ err = Nil
    THEN readPayloadStep(e, rRead(io, e.size))
    ELSE [fail |-> FALSE, e |-> e, io |-> io, rc |-> rc, err |-> err]

\* missingBytes of Entry.read
missingBytes(n, size, rc, flag) ==
    (HeaderLen - n) + (size - rc) + (IF flag = 0 THEN 1 ELSE 0)

\* readDone marking incomplete only the entries whose flag says so.
readDone_m(n, p, f) ==
    LET flag == IF f.data = << >> THEN 0 ELSE f.data[1]
    IN  IF f.err # Nil /\ f.err # EOF
        THEN [mb |-> 0, err |-> ErrUnexpectedReadError, e |-> p.e, io |-> f.io]
        ELSE [mb |-> missingBytes(n, p.e.size, p.rc, flag), err |-> f.err,
              e |-> [p.e EXCEPT !.incomplete = (flag = fIncompleteEntry)],
              io |-> f.io]

\* Entry.read, the end: f is what the read of the flag returned.
readDone(n, p, f) ==
    LET flag == IF f.data = << >> THEN 0 ELSE f.data[1]
    IN  IF f.err # Nil /\ f.err # EOF
        THEN [mb |-> 0, err |-> ErrUnexpectedReadError, e |-> p.e, io |-> f.io]
        ELSE [mb |-> missingBytes(n, p.e.size, p.rc, flag), err |-> f.err,
              e |-> [p.e EXCEPT !.incomplete = (flag # fCompleteEntry)],
              io |-> f.io]

\* Entry.read, the flag: read when the payload is whole; p is the outcome of
\* the payload loop.
readFlag(n, p) ==
    IF p.fail
    THEN [mb |-> 0, err |-> ErrUnexpectedReadError, e |-> p.e, io |-> p.io]
    ELSE readDone(n, p, IF p.rc = p.e.size
                        THEN rRead(p.io, 1)
                        ELSE [data |-> << >>, err |-> p.err, io |-> p.io])

\* Entry.read after the read of the size header, h being what it returned.
readHeader(e, h) ==
    LET n == Len(h.data)
        size == readInt(h.data \o Zeros(HeaderLen - n))
        e1 == [e EXCEPT !.size = size,
                        !.bytes = IF Len(@) < size THEN Zeros(size) ELSE @]
    IN  IF h.err # Nil /\ h.err # EOF
        THEN [mb |-> 0, err |-> ErrUnexpectedReadError, e |-> e, io |-> h.io]
        ELSE IF n = 0
        THEN [mb |-> 0, err |-> h.err, e |-> [e EXCEPT !.size = 0], io |-> h.io]
        ELSE readFlag(n, IF n = HeaderLen
                         THEN readPayload(e1, h.io, 0, h.err)
                         ELSE [fail |-> FALSE, e |-> e1, io |-> h.io, rc |-> 0,
                               err |-> h.err])

\* Entry.read: fills e from the reader; mb is the number of bytes missing to
\* complete the entry.
read(e, io) == readHeader(e, rRead(io, HeaderLen))

\* ---------------------------------------------------------------- Appender
\* Appender.close: the Appender is closed, the cause kept, the file released.
close(a, err) == [a EXCEPT !.closed = TRUE, !.err = err, !.fclose = @ + 1]

\* ---------------------------------------------------------------- reducers
\* A handler is a record: kind, n (callback invocations so far), the
\* accumulated ls / v / size, and the behaviour of the caller's callbacks:
\* cutAt / errAt, the invocation at which the callback returns cutoff / an
\* error (0: never), and sel, the records a filter predicate includes.
NewHandler(kind, cutAt, errAt, sel) ==
    [kind |-> kind, n |-> 0, ls |-> << >>, v |-> 0, size |-> 0,
     cutAt |-> cutAt, errAt |-> errAt, sel |-> sel,
     fn |-> 0, fcutAt |-> 0, ferrAt |-> 0]

\* The handler of FilteredMap: fn counts the invocations of the FilterFn,
\* fcutAt / ferrAt are the invocation at which it returns cutoff / an error
\* (0: never); n, cutAt and errAt are those of the MapFn.
NewFilter(sel, fcutAt, ferrAt, cutAt, errAt) ==
    [NewHandler("filteredMap", cutAt, errAt, sel) EXCEPT
        !.fcutAt = fcutAt, !.ferrAt = ferrAt]

\* The caller's FilterFn: the records h.sel names are included.
include(h, e) ==
    CASE h.sel = "incomplete" -> e.incomplete
      [] h.sel = "short" -> e.size = 1
      [] OTHER -> TRUE

\* The caller's callback, invoked for the k-th time.
userCutoff(h, k) == h.cutAt = k
userErr(h, k) == IF h.errAt = k THEN ErrReducer ELSE Nil

\* sizeFoldHandler.Fold
sizeFold(h, e) ==
    [h |-> [h EXCEPT !.size = @ + HeaderLen + e.size + 1], cutoff |-> FALSE, err |-> Nil]

\* forEachHandler.Fold
forEachFold(h, e) ==
    [h |-> [h EXCEPT !.n = @ + 1],
     cutoff |-> userCutoff(h, h.n + 1), err |-> userErr(h, h.n + 1)]

\* mapFold keeping the value of a MapFn that failed.
mapFold_m(h, e) ==
    [h |-> [h EXCEPT !.n = @ + 1, !.ls = Append(@, e.size)],
     cutoff |-> userCutoff(h, h.n + 1), err |-> userErr(h, h.n + 1)]

\* mapHandler.Fold, the MapFn returning e.Size()
mapFold(h, e) ==
    LET err == userErr(h, h.n + 1)
    IN  [h |-> [h EXCEPT !.n = @ + 1,
                         !.ls = IF err = Nil THEN Append(@, e.size) ELSE @],
         cutoff |-> userCutoff(h, h.n + 1), err |-> err]

\* filteredMapFold deaf to the cutoff of a FilterFn that excludes the record.
filteredMapFold_m(h, e) ==
    LET ferr == IF h.ferrAt = h.fn + 1 THEN ErrFilter ELSE Nil
    IN  IF ferr = Nil /\ include(h, e)
        THEN LET err == userErr(h, h.n + 1)
             IN  [h |-> [h EXCEPT !.fn = @ + 1, !.n = @ + 1,
                                  !.ls = IF err = Nil THEN Append(@, View(e)) ELSE @],
                  cutoff |-> h.fcutAt = h.fn + 1 \/ userCutoff(h, h.n + 1), err |-> err]
        ELSE [h |-> [h EXCEPT !.fn = @ + 1], cutoff |-> FALSE, err |-> ferr]

\* filteredMapHandler.Fold, the FilterFn including the records h.sel names and
\* the MapFn returning the entry's view
filteredMapFold(h, e) ==
    LET v == include(h, e)
        fcutoff == h.fcutAt = h.fn + 1
        ferr == IF h.ferrAt = h.fn + 1 THEN ErrFilter ELSE Nil
    IN  IF ferr = Nil /\ v
        THEN LET err == userErr(h, h.n + 1)
             IN  [h |-> [h EXCEPT !.fn = @ + 1, !.n = @ + 1,
                                  !.ls = IF err = Nil THEN Append(@, View(e)) ELSE @],
                  cutoff |-> fcutoff \/ userCutoff(h, h.n + 1), err |-> err]
        ELSE [h |-> [h EXCEPT !.fn = @ + 1], cutoff |-> fcutoff, err |-> ferr]

\* The pointer FoldWithHandler passes to its handler: there is one Entry, the
\* shared one, whatever record it holds.
SharedEntryPtr == "sharedEntry"

\* filterHandler.Fold: the pointer it is passed is kept for an included record.
filterFold(h, e) ==
    LET ferr == IF h.ferrAt = h.fn + 1 THEN ErrFilter ELSE Nil
    IN  [h |-> [h EXCEPT !.fn = @ + 1,
                         !.ls = IF ferr = Nil /\ include(h, e)
                                THEN Append(@, SharedEntryPtr) ELSE @],
         cutoff |-> h.fcutAt = h.fn + 1, err |-> ferr]

\* gFoldHandler.Fold, the FoldFn adding e.Size() to the accumulator
gFold(h, e) ==
    LET err == userErr(h, h.n + 1)
    IN  [h |-> [h EXCEPT !.n = @ + 1,
                         !.v = IF err = Nil THEN @ + e.size ELSE @],
         cutoff |-> userCutoff(h, h.n + 1), err |-> err]

\* FoldHandler.Fold
Fold(h, e) ==
    CASE h.kind = "size" -> sizeFold(h, e)
      [] h.kind = "forEach" -> forEachFold(h, e)
      [] h.kind = "map" -> mapFold(h, e)
      [] h.kind = "filteredMap" -> filteredMapFold(h, e)
      [] h.kind = "fold" -> gFold(h, e)
      [] h.kind = "filter" -> filterFold(h, e)

\* FoldHandler.Values as the caller finds them once the traversal has returned
\* leaving the shared entry as e: the values, and for the pointers of a
\* filterHandler the entry they point to.
Values(h, e) ==
    IF h.kind = "filter" THEN [i \in 1..Len(h.ls) |-> View(e)] ELSE h.ls

\* --------------------------------------------------------------- traversal
\* repairFlushed taking every flush for a failed one.
repairFlushed_m(a, fl) ==
    [failed |-> TRUE, a |-> close(a, "write error"), io |-> fl.io]

\* FoldWithHandler, completing the last entry: fl is what the flush returned.
repairFlushed(a, fl) ==
    IF fl.err
    THEN [failed |-> TRUE, a |-> close(a, "write error"), io |-> fl.io]
    ELSE [failed |-> FALSE, a |-> a, io |-> fl.io]

\* FoldWithHandler, completing the last entry: wr is what the write returned.
repairWritten(a, mb, wr) ==
    IF wr.n # mb \/ wr.err
    THEN [failed |-> TRUE, a |-> close(a, "write error"), io |-> wr.io]
    ELSE repairFlushed(a, wFlush(wr.io))

\* FoldWithHandler, completing the last entry: mb - 1 zero bytes and the
\* incomplete flag, written and flushed; a failure closes the Appender.
repair(a, io, mb) ==
    repairWritten(a, mb, wWrite(io, Append(Zeros(mb - 1), fIncompleteEntry)))

\* The state of a traversal: io, the Appender fields a, the shared entry e,
\* the offset off, the handler h, ret (the error returned, once it returns),
\* and what a caller can observe of it: seen, the entries handed to the
\* handler, and atFold, the file and the writer's buffer at the last such call.
RECURSIVE foldLoop(_)

\* foldStep with the handler's error ignored.
foldStep_m(s, r) ==
    LET f == Fold(s.h, r.e)
        t == [s EXCEPT !.e = r.e, !.h = f.h, !.seen = Append(@, View(r.e)),
                       !.atFold = [file |-> s.io.file, wbuf |-> s.io.wbuf]]
    IN  IF f.cutoff THEN [t EXCEPT !.ret = r.err]
        ELSE foldLoop([t EXCEPT !.off = @ + HeaderLen + r.e.size + 1])

\* FoldWithHandler, the loop body after the read and the repair: the handler
\* is called, its error returned, its cutoff obeyed, the offset advanced.
foldStep(s, r) ==
    LET f == Fold(s.h, r.e)
        t == [s EXCEPT !.e = r.e, !.h = f.h, !.seen = Append(@, View(r.e)),
                       !.atFold = [file |-> s.io.file, wbuf |-> s.io.wbuf]]
    IN  IF f.err # Nil THEN [t EXCEPT !.ret = f.err]
        ELSE IF f.cutoff THEN [t EXCEPT !.ret = r.err]
        ELSE foldLoop([t EXCEPT !.off = @ + HeaderLen + r.e.size + 1])

\* FoldWithHandler, the loop body after the repair rep of what the read r
\* left missing.  The error set after a repair is assigned to a variable of
\* the inner block: the error of the read stays.
foldRepaired(s, r, rep) ==
    LET t == [s EXCEPT !.e = r.e, !.a = rep.a, !.io = rep.io]
    IN  IF rep.failed THEN [t EXCEPT !.ret = ErrCompletingLastEntry]
        ELSE IF r.err = EOF THEN [t EXCEPT !.ret = Nil]
        ELSE foldStep(t, r)

\* FoldWithHandler, the loop body after the read r of the shared entry.
foldRead(s, r) ==
    foldRepaired(s, r, IF r.mb > 0
                       THEN repair(s.a, r.io, r.mb)
                       ELSE [failed |-> FALSE, a |-> s.a, io |-> r.io])

\* FoldWithHandler, one iteration of the loop.
foldLoop(s) == foldRead(s, read([s.e EXCEPT !.off = s.off], s.io))

\* Appender.FoldWithHandler
FoldWithHandler(a, io, e, h) ==
    LET s == [io |-> io, a |-> a, e |-> e, off |-> 0, h |-> h, ret |-> Nil,
              seen |-> << >>, atFold |-> [file |-> io.file, wbuf |-> io.wbuf]]
    IN  IF a.closed
        THEN [s EXCEPT !.ret = ErrAppenderClosed]
        ELSE foldLoop([s EXCEPT !.io = seek(io, a.baseOffset, 0)])

\* ------------------------------------------------------------------ append
\* itemOff without the bytes written earlier in the call.
itemOff_m(size, writtenBytes) == size

\* AppendBulk: the offset of the item being written.
itemOff(size, writtenBytes) == size + writtenBytes

\* writeFailed with the Appender left open.
writeFailed_m(a, io) ==
    [err |-> ErrUnexpectedWriteErr, offs |-> << >>, a |-> a, io |-> io]

\* AppendBulk, a failed write: the Appender is closed.
writeFailed(a, io) ==
    [err |-> ErrUnexpectedWriteErr, offs |-> << >>, a |-> close(a, "write error"),
     io |-> io]

\* AppendBulk, the loop over the batch from item i on, then the flush.
RECURSIVE appendItems(_, _, _, _, _, _)

\* appendFlushed with the size not advanced.
appendFlushed_m(a, offs, writtenBytes, fl) ==
    IF fl.err
    THEN writeFailed(a, fl.io)
    ELSE [err |-> Nil, offs |-> offs, a |-> a, io |-> fl.io]

\* AppendBulk after the flush, fl being what it returned.
appendFlushed(a, offs, writtenBytes, fl) ==
    IF fl.err
    THEN writeFailed(a, fl.io)
    ELSE [err |-> Nil, offs |-> offs,
          a |-> [a EXCEPT !.size = @ + writtenBytes], io |-> fl.io]

\* appendFlagged counting the payload only, not its header and flag.
appendFlagged_m(a, bss, i, offs, writtenBytes, w3) ==
    IF w3.err THEN writeFailed(a, w3.io)
    ELSE appendItems(a, w3.io, bss, i + 1,
                     Append(offs, itemOff(a.size, writtenBytes)),
                     writtenBytes + Len(bss[i]))

\* AppendBulk, item i after the write w3 of its flag.
appendFlagged(a, bss, i, offs, writtenBytes, w3) ==
    IF w3.err THEN writeFailed(a, w3.io)
    ELSE appendItems(a, w3.io, bss, i + 1,
                     Append(offs, itemOff(a.size, writtenBytes)),
                     writtenBytes + HeaderLen + Len(bss[i]) + 1)

\* AppendBulk, item i after the write w2 of its payload.
appendPayload(a, bss, i, offs, writtenBytes, w2) ==
    IF w2.n # Len(bss[i]) \/ w2.err THEN writeFailed(a, w2.io)
    ELSE appendFlagged(a, bss, i, offs, writtenBytes, wWriteByte(w2.io, fCompleteEntry))

\* AppendBulk, item i after the write w1 of its size header.
appendHeader(a, bss, i, offs, writtenBytes, w1) ==
    IF w1.n # HeaderLen \/ w1.err THEN writeFailed(a, w1.io)
    ELSE appendPayload(a, bss, i, offs, writtenBytes, wWrite(w1.io, bss[i]))

appendItems(a, io, bss, i, offs, writtenBytes) ==
    IF i > Len(bss)
    THEN appendFlushed(a, offs, writtenBytes, wFlush(io))
    ELSE IF Len(bss[i]) = 0
    THEN [err |-> ErrInvalidArguments, offs |-> << >>, a |-> a, io |-> io]
    ELSE IF Len(bss[i]) > MaxEntrySize
    THEN [err |-> ErrEntryExceedsMaxSize, offs |-> << >>, a |-> a, io |-> io]
    ELSE appendHeader(a, bss, i, offs, writtenBytes,
                      wWrite(io, writeInt(HeaderLen, Len(bss[i]))))

\* Appender.AppendBulk on an Appender that is not closed.
appendBulkOpen(a, io, bss) ==
    IF Len(bss) = 0
    THEN [err |-> ErrInvalidArguments, offs |-> << >>, a |-> a, io |-> io]
    ELSE appendItems(a, io, bss, 1, << >>, 0)

\* appendBulk without the check of closed.
appendBulk_m(a, io, bss) == appendBulkOpen(a, io, bss)

\* Appender.AppendBulk
appendBulk(a, io, bss) ==
    IF a.closed
    THEN [err |-> ErrAppenderClosed, offs |-> << >>, a |-> a, io |-> io]
    ELSE appendBulkOpen(a, io, bss)

\* -------------------------------------------------------------------- read
\* Appender.Read: the entry and the error of its read r are returned.
readReturn(r) == [err |-> r.err, some |-> TRUE, e |-> r.e, io |-> r.io]

\* readOpen refusing the offset that equals the size.
readOpen_m(a, io, off) ==
    IF off < 0 \/ off >= a.size
    THEN [err |-> ErrInvalidArguments, some |-> FALSE, e |-> NewEntry(0), io |-> io]
    ELSE readReturn(read(NewEntry(off), seek(io, a.baseOffset, off)))

\* Appender.Read on an Appender that is not closed.
readOpen(a, io, off) ==
    IF off < 0 \/ off > a.size
    THEN [err |-> ErrInvalidArguments, some |-> FALSE, e |-> NewEntry(0), io |-> io]
    ELSE readReturn(read(NewEntry(off), seek(io, a.baseOffset, off)))

\* Appender.Read
readAt(a, io, off) ==
    IF a.closed
    THEN [err |-> ErrAppenderClosed, some |-> FALSE, e |-> NewEntry(0), io |-> io]
    ELSE readOpen(a, io, off)

\* ------------------------------------------------------------------- state
VARIABLES
    file,        \* the bytes of the file
    w,           \* the Appender's bufio.Writer: buf (unflushed bytes), err
    app,         \* the Appender: size, closed, err, baseOffset, fclose (f.Close calls)
    sharedEntry, \* sharedMem.sharedEntry
    last,        \* the last call: its arguments, what it returned, what it saw
    appended,    \* the offsets and payloads of the successful appends since Open
    openFile,    \* the bytes of the file when it was opened
    openedFile,  \* the bytes of the file when Open returned
    opens,       \* the times the file was opened again
    faults,      \* the writes to the file that failed
    mux,         \* the Appender's mutex: 0 when free, else the goroutine holding it
    rd,          \* the file offset, the bufio.Reader's unread bytes and the
                 \* pending read fault of the file, between steps
    proc         \* the goroutines calling the Appender: the call each is in

vars == << file, w, app, sharedEntry, last, appended, openFile, openedFile, opens,
          faults, mux, rd, proc >>

\* What the calls of one goroutine at a time leave alone.
goroutines == << mux, rd, proc >>

\* ------------------------------------------------------------------ inputs
\* The payload of n bytes 1, 2, .., n.
Asc(n) == [i \in 1..n |-> i]

Payloads == {Asc(n) : n \in 1..MaxEntrySize} \cup {<< 0 >>}

\* The items of a batch: the payloads, the empty one and one that is too long.
Items == Payloads \cup {<< >>, Asc(MaxEntrySize + 1)}

\* The faults of the file during one call: none, or the write after wfail
\* successful ones fails having put wpart bytes into the file.
NoFault == [wfail |-> -1, wpart |-> 0]

Faults ==
    IF faults < MaxFaults
    THEN {NoFault} \cup {[wfail |-> 0, wpart |-> j] : j \in 0..(WriterBufSize - 1)}
                   \cup {[wfail |-> 1, wpart |-> 0]}
    ELSE {NoFault}

\* The failed writes after a call.
Faulted(io) == IF io.wfailed THEN faults + 1 ELSE faults

\* The I/O stack at the start of a call.  Every read path seeks before it
\* reads and every write appends, so the file offset and the reader's buffer
\* of the previous call are never observed.
StartIO(flt) ==
    [file |-> file, pos |-> 0, rbuf |-> << >>, wbuf |-> w.buf, werr |-> w.err,
     wfail |-> flt.wfail, wpart |-> flt.wpart, rfail |-> -1,
     nwrite |-> 0, wfailed |-> FALSE, rfailed |-> FALSE, rstuck |-> FALSE]

NoEntry == [off |-> -1, size |-> 0, bytes |-> << >>, incomplete |-> FALSE]

\* What is kept of a call.  pre is the Appender and the file before it.
Call(op) ==
    [op |-> op, bss |-> << >>, off |-> 0, cutAt |-> 0, errAt |-> 0, sel |-> "",
     fcutAt |-> 0, ferrAt |-> 0, n |-> 0, fn |-> 0,
     err |-> Nil, offs |-> << >>, e |-> NoEntry, seen |-> << >>, vals |-> << >>, v |-> 0,
     wfailed |-> FALSE, rfailed |-> FALSE,
     atFold |-> [file |-> << >>, wbuf |-> << >>],
     pre |-> [file |-> file, wbuf |-> w.buf, size |-> app.size, closed |-> app.closed]]

\* The goroutines that call the Appender concurrently.
Procs == 1..NumProcs

\* -------------------------------------------------------------------- Init
\* OpenWithConfig: the Appender before the size scan.
NewAppender ==
    [size |-> 0, closed |-> FALSE, err |-> Nil, baseOffset |-> DefaultBaseOffset,
     fclose |-> 0]

\* A goroutine outside every call: pc is "idle", or "run" between the Lock and
\* the Unlock of a call, or "inner" within the reducer its traversal called,
\* where it calls the Appender again; op is its last call, calls the number of its calls;
\* bss, i, offs, writtenBytes are the locals of AppendBulk; off, h, seen and
\* started those of FoldWithHandler; err is what the last call returned.
\* bulkAt is the length of the file when its AppendBulk locked, pre the file,
\* the writer's buffer, the Appender and the shared entry when its last
\* traversal locked.
IdleProc ==
    [pc |-> "idle", op |-> "", calls |-> 0, bss |-> << >>, i |-> 0, offs |-> << >>,
     writtenBytes |-> 0, off |-> 0, h |-> NewHandler("forEach", 0, 0, ""),
     seen |-> << >>, started |-> FALSE, err |-> Nil,
     bulkAt |-> -1,
     pre |-> [file |-> << >>, wbuf |-> << >>, a |-> NewAppender, e |-> NoEntry]]

\* Open of a file that does not exist yet.
Init ==
    /\ file = << >>
    /\ w = [buf |-> << >>, err |-> FALSE]
    /\ app = NewAppender
    /\ sharedEntry = [off |-> 0, size |-> 0, bytes |-> Zeros(MaxEntrySize),
                      incomplete |-> FALSE]
    /\ last = [op |-> "Open", bss |-> << >>, off |-> 0, cutAt |-> 0, errAt |-> 0,
               sel |-> "", fcutAt |-> 0, ferrAt |-> 0, n |-> 0, fn |-> 0,
               err |-> Nil, offs |-> << >>, e |-> NoEntry, seen |-> << >>,
               vals |-> << >>, v |-> 0, wfailed |-> FALSE, rfailed |-> FALSE,
               atFold |-> [file |-> << >>, wbuf |-> << >>],
               pre |-> [file |-> << >>, wbuf |-> << >>, size |-> 0, closed |-> FALSE]]
    /\ appended = << >>
    /\ openFile = << >>
    /\ openedFile = << >>
    /\ opens = 0
    /\ faults = 0
    /\ mux = 0
    /\ rd = [pos |-> 0, rbuf |-> << >>, rfail |-> -1, rstuck |-> FALSE]
    /\ proc = [p \in Procs |-> IdleProc]

\* ----------------------------------------------------------------- actions
InBounds(io) == Len(io.file) <= MaxFileLen

\* OpenWithConfig, r being the size scan's outcome: the Appender is returned
\* with the size the scan counted.
Opened(r) ==
    /\ InBounds(r.io)
    /\ opens' = opens + 1
    /\ faults' = Faulted(r.io)
    /\ file' = r.io.file
    /\ w' = [buf |-> r.io.wbuf, err |-> r.io.werr]
    /\ app' = [r.a EXCEPT !.size = r.h.size]
    /\ sharedEntry' = r.e
    /\ last' = [Call("Open") EXCEPT !.err = r.ret, !.seen = r.seen,
                    !.wfailed = r.io.wfailed, !.atFold = r.atFold,
                    !.pre = [file |-> file, wbuf |-> << >>, size |-> 0,
                             closed |-> FALSE]]
    /\ appended' = << >>
    /\ openFile' = file
    /\ openedFile' = r.io.file
    /\ UNCHANGED goroutines

\* OpenWithConfig once the previous Appender is closed (whatever its writer
\* had not flushed is gone with it): a new Appender, then the size scan.
Open(flt) ==
    /\ app.closed
    /\ opens < MaxOpens
    /\ Opened(FoldWithHandler(NewAppender,
                              [StartIO(flt) EXCEPT !.wbuf = << >>, !.werr = FALSE],
                              [off |-> 0, size |-> 0, bytes |-> Zeros(MaxEntrySize),
                               incomplete |-> FALSE],
                              NewHandler("size", 0, 0, "")))

\* Appender.Close
Close ==
    /\ app' = close(app, Nil)
    /\ last' = Call("Close")
    /\ UNCHANGED << file, w, sharedEntry, appended, openFile, openedFile, opens, faults >>
    /\ UNCHANGED goroutines

\* The offsets and payloads a successful AppendBulk adds.
Added(r, bss) ==
    IF r.err = Nil
    THEN appended \o [i \in 1..Len(bss) |-> [off |-> r.offs[i], bs |-> bss[i]]]
    ELSE appended

\* AppendBulk returns r: the Appender, its writer and the file after it.
Appended(op, bss, r) ==
    /\ InBounds(r.io)
    /\ file' = r.io.file
    /\ w' = [buf |-> r.io.wbuf, err |-> r.io.werr]
    /\ app' = r.a
    /\ last' = [Call(op) EXCEPT !.bss = bss, !.err = r.err,
                    !.off = IF op = "Append" /\ r.err = Nil THEN r.offs[1] ELSE 0,
                    !.offs = r.offs, !.wfailed = r.io.wfailed]
    /\ appended' = Added(r, bss)
    /\ faults' = Faulted(r.io)
    /\ UNCHANGED << sharedEntry, openFile, openedFile, opens >>
    /\ UNCHANGED goroutines

\* Appender.AppendBulk
AppendBulk(bss, flt) == Appended("AppendBulk", bss, appendBulk(app, StartIO(flt), bss))

\* Appender.Append: AppendBulk of the one payload, its first offset returned.
AppendOp(bs, flt) == Appended("Append", << bs >>, appendBulk(app, StartIO(flt), << bs >>))

\* Appender.Read returns r; nothing of the Appender changes.
ReadDone(off, r) ==
    /\ last' = [Call("Read") EXCEPT !.off = off, !.err = r.err,
                    !.e = IF r.some THEN View(r.e) ELSE NoEntry,
                    !.rfailed = r.io.rfailed]
    /\ UNCHANGED << file, w, app, sharedEntry, appended, openFile, openedFile, opens, faults >>
    /\ UNCHANGED goroutines

\* Appender.Read
Read(off) == ReadDone(off, readAt(app, StartIO(NoFault), off))

\* A traversal called as op with handler h returns r.
Traversed(op, h, r) ==
    /\ InBounds(r.io)
    /\ file' = r.io.file
    /\ w' = [buf |-> r.io.wbuf, err |-> r.io.werr]
    /\ app' = r.a
    /\ sharedEntry' = r.e
    /\ last' = [Call(op) EXCEPT !.cutAt = h.cutAt, !.errAt = h.errAt,
                    !.sel = h.sel, !.fcutAt = h.fcutAt, !.ferrAt = h.ferrAt,
                    !.n = r.h.n, !.fn = r.h.fn,
                    !.err = r.ret, !.seen = r.seen,
                    !.vals = Values(r.h, r.e), !.v = r.h.v,
                    !.wfailed = r.io.wfailed, !.rfailed = r.io.rfailed,
                    !.atFold = r.atFold]
    /\ faults' = Faulted(r.io)
    /\ UNCHANGED << appended, openFile, openedFile, opens >>
    /\ UNCHANGED goroutines

\* A traversal with handler h, called as op.
Traverse(op, h, flt) ==
    Traversed(op, h, FoldWithHandler(app, StartIO(flt), sharedEntry, h))

\* Appender.ForEach
ForEach(cutAt, errAt, flt) ==
    Traverse("ForEach", NewHandler("forEach", cutAt, errAt, ""), flt)

\* Appender.Map
Map(cutAt, errAt) ==
    Traverse("Map", NewHandler("map", cutAt, errAt, ""), NoFault)

\* Appender.FilteredMap
FilteredMap(sel, fcutAt, ferrAt, cutAt, errAt) ==
    Traverse("FilteredMap", NewFilter(sel, fcutAt, ferrAt, cutAt, errAt), NoFault)

\* Appender.Filter
Filter(sel, fcutAt, ferrAt) ==
    Traverse("Filter", [NewFilter(sel, fcutAt, ferrAt, 0, 0) EXCEPT !.kind = "filter"],
             NoFault)

\* Appender.Fold
FoldOp(cutAt, errAt) ==
    Traverse("Fold", NewHandler("fold", cutAt, errAt, ""), NoFault)

\* The batches of AppendBulk: up to MaxBatch items, each a short payload, a
\* payload of the maximal size, the empty one or one that is too long.
BulkItems == {<< 1 >>, Asc(MaxEntrySize), << >>, Asc(MaxEntrySize + 1)}

Batches == UNION {[1..n -> BulkItems] : n \in 0..MaxBatch}

\* The Appender of one process on a file that never fails: appends, reads,
\* traversals, Close.
Next ==
    \/ app.fclose < MaxClose /\ Close
    \/ \E bss \in Batches : AppendBulk(bss, NoFault)
    \/ \E bs \in Items : AppendOp(bs, NoFault)
    \/ \E off \in -1..(app.size + 1) : Read(off)
    \/ \E cutAt \in 0..MaxCut, errAt \in 0..MaxCut : ForEach(cutAt, errAt, NoFault)
    \/ \E sel \in {"incomplete", "all"} : FilteredMap(sel, 0, 0, 0, 0)

Spec == Init /\ [][Next]_vars

\* The payloads the reader's buffer holds whole, and a batch of them.
ShortPayloads == {Asc(n) : n \in 1..(MaxEntrySize - 1)}

\* A file whose writes may fail, leaving part of a frame behind, and that is
\* opened again once the Appender is closed.
NextFault ==
    \/ \E flt \in Faults : Open(flt)
    \/ ~app.closed /\ Close
    \/ \E flt \in Faults : AppendBulk(<< << 1 >>, << 1 >> >>, flt)
    \/ \E bs \in ShortPayloads, flt \in Faults : AppendOp(bs, flt)
    \/ \E i \in 1..Len(appended) : Read(appended[i].off)
    \/ \E flt \in Faults : ForEach(0, 0, flt)

SpecFault == Init /\ [][NextFault]_vars

\* ------------------------------------------------------------- read faults
\* The I/O stack of a call during which the file read after k successful ones
\* fails.
ReadFaultIO(k) == [StartIO(NoFault) EXCEPT !.rfail = k]

\* Appender.Read on a file whose reads may fail.
ReadFailing(off, k) == ReadDone(off, readAt(app, ReadFaultIO(k), off))

\* Appender.ForEach on a file whose reads may fail.
ForEachFailing(cutAt, k) ==
    Traversed("ForEach", NewHandler("forEach", cutAt, 0, ""),
              FoldWithHandler(app, ReadFaultIO(k), sharedEntry,
                              NewHandler("forEach", cutAt, 0, "")))

\* A file whose reads may fail: appends of payloads the reader's buffer holds
\* whole, reads and traversals.
NextRead ==
    \/ \E bs \in ShortPayloads : AppendOp(bs, NoFault)
    \/ \E off \in 0..app.size, k \in 0..MaxReadFail : ReadFailing(off, k)
    \/ \E cutAt \in 0..MaxCut, k \in 0..MaxReadFail : ForEachFailing(cutAt, k)
    \/ ~app.closed /\ Close

SpecRead == Init /\ [][NextRead]_vars

\* ---------------------------------------------------------------- reducers
\* The traversals that return what their callbacks accumulated, over records
\* the reader's buffer holds whole; each callback may include, cut off or fail.
NextReduce ==
    \/ \E bs \in ShortPayloads : AppendOp(bs, NoFault)
    \/ \E cutAt \in 0..MaxCut, errAt \in 0..MaxCut : Map(cutAt, errAt)
    \/ \E cutAt \in 0..MaxCut, errAt \in 0..MaxCut : FoldOp(cutAt, errAt)
    \/ \E sel \in {"all", "short"}, fcutAt \in 0..MaxCut, ferrAt \in 0..MaxCut,
          cutAt \in 0..MaxCut, errAt \in 0..MaxCut :
            FilteredMap(sel, fcutAt, ferrAt, cutAt, errAt)
    \/ \E sel \in {"all", "short"}, fcutAt \in 0..MaxCut, ferrAt \in 0..MaxCut :
            Filter(sel, fcutAt, ferrAt)

SpecReduce == Init /\ [][NextReduce]_vars

\* ------------------------------------------------------------------- Close
\* A file whose writes may fail and an Appender that is never replaced: Close
\* is called whenever the caller likes, after a failure closed the Appender
\* and after an earlier Close as well.
NextClose ==
    \/ app.fclose < MaxClose /\ Close
    \/ \E bs \in ShortPayloads, flt \in Faults : AppendOp(bs, flt)
    \/ \E flt \in Faults : ForEach(0, 0, flt)
    \/ \E i \in 1..Len(appended) : Read(appended[i].off)

SpecClose == Init /\ [][NextClose]_vars

\* ------------------------------------------------------------- base offset
\* The header region a caller keeps in front of a log of base offset b.
HeaderRegion(b) == [i \in 1..b |-> 9]

\* OpenWithConfig with cfg.BaseOffset = b on the file f: the Appender, its
\* writer and the file as the size scan r leaves them.
OpenedWithConfig(b, f, r) ==
    /\ file = r.io.file
    /\ w = [buf |-> r.io.wbuf, err |-> r.io.werr]
    /\ app = [r.a EXCEPT !.size = r.h.size]
    /\ sharedEntry = r.e
    /\ last = [Call("Open") EXCEPT !.err = r.ret, !.seen = r.seen,
                   !.pre = [file |-> f, wbuf |-> << >>, size |-> 0, closed |-> FALSE]]
    /\ appended = << >>
    /\ openFile = f
    /\ openedFile = r.io.file
    /\ opens = 0
    /\ faults = 0
    /\ mux = 0
    /\ rd = [pos |-> 0, rbuf |-> << >>, rfail |-> -1, rstuck |-> FALSE]
    /\ proc = [p \in Procs |-> IdleProc]

\* The file f before anything is read or written.
FileIO(f) ==
    [file |-> f, pos |-> 0, rbuf |-> << >>, wbuf |-> << >>, werr |-> FALSE,
     wfail |-> -1, wpart |-> 0, rfail |-> -1,
     nwrite |-> 0, wfailed |-> FALSE, rfailed |-> FALSE, rstuck |-> FALSE]

\* OpenWithConfig with a base offset of 0 to MaxBase, on a file that is new
\* or holds the header region and nothing else.
InitBase ==
    \E b \in 0..MaxBase : \E f \in {<< >>, HeaderRegion(b)} :
        OpenedWithConfig(b, f,
            FoldWithHandler([NewAppender EXCEPT !.baseOffset = b], FileIO(f),
                            [off |-> 0, size |-> 0, bytes |-> Zeros(MaxEntrySize),
                             incomplete |-> FALSE],
                            NewHandler("size", 0, 0, "")))

\* Appends, reads of any offset up to the size and traversals.
NextBase ==
    \/ \E bs \in ShortPayloads : AppendOp(bs, NoFault)
    \/ \E off \in 0..app.size : Read(off)
    \/ ForEach(0, 0, NoFault)

SpecBase == InitBase /\ [][NextBase]_vars

\* -------------------------------------------------------------- goroutines
\* Several goroutines call one Appender.  A call is a Lock of the mutex, the
\* steps of its body and, with the last of them, the deferred Unlock.  A step
\* of AppendBulk is one item of the batch or the final flush; a step of a
\* traversal is one iteration of the loop of FoldWithHandler.

\* sync.Mutex.Lock returning although the mutex is held.
lockable_m(m) == TRUE

\* sync.Mutex.Lock returns once the mutex is free.
lockable(m) == m = 0

\* lockableBy letting the goroutine that holds the mutex lock it again.
lockableBy_m(m, p) == lockable(m) \/ m = p

\* sync.Mutex.Lock called by goroutine p: the mutex knows no owner, p waits for
\* it like every other goroutine.
lockableBy(m, p) == lockable(m)

\* The batch goroutine p appends: two records of one byte that names it.
ProcBatch(p) == << << p + 2 >>, << p + 2 >> >>

\* The I/O stack at a step: the file offset, the reader's buffer and the
\* file's read fault are as the step before it left them.
StepIO ==
    [StartIO(NoFault) EXCEPT !.pos = rd.pos, !.rbuf = rd.rbuf,
                             !.rfail = rd.rfail, !.rstuck = rd.rstuck]

\* AppendBulk, one item: after the write w3 of its flag.
itemFlagged(a, w3) ==
    IF w3.err THEN writeFailed(a, w3.io)
    ELSE [err |-> Nil, offs |-> << >>, a |-> a, io |-> w3.io]

\* AppendBulk, one item: after the write w2 of its payload.
itemPayload(a, bs, w2) ==
    IF w2.n # Len(bs) \/ w2.err THEN writeFailed(a, w2.io)
    ELSE itemFlagged(a, wWriteByte(w2.io, fCompleteEntry))

\* AppendBulk, one item: after the write w1 of its size header.
itemHeader(a, bs, w1) ==
    IF w1.n # HeaderLen \/ w1.err THEN writeFailed(a, w1.io)
    ELSE itemPayload(a, bs, wWrite(w1.io, bs))

\* AppendBulk, the body of the loop for the item bs: err is Nil when the loop
\* goes on.
appendItem(a, io, bs) ==
    IF Len(bs) = 0
    THEN [err |-> ErrInvalidArguments, offs |-> << >>, a |-> a, io |-> io]
    ELSE IF Len(bs) > MaxEntrySize
    THEN [err |-> ErrEntryExceedsMaxSize, offs |-> << >>, a |-> a, io |-> io]
    ELSE itemHeader(a, bs, wWrite(io, writeInt(HeaderLen, Len(bs))))

\* FoldWithHandler, one iteration: after the call f of the handler; done when
\* the traversal returns.
iterFolded(t, r, f) ==
    LET u == [t EXCEPT !.e = r.e, !.h = f.h, !.seen = Append(@, View(r.e)),
                       !.atFold = [file |-> t.io.file, wbuf |-> t.io.wbuf]]
    IN  IF f.err # Nil THEN [done |-> TRUE, s |-> [u EXCEPT !.ret = f.err]]
        ELSE IF f.cutoff THEN [done |-> TRUE, s |-> [u EXCEPT !.ret = r.err]]
        ELSE [done |-> FALSE, s |-> [u EXCEPT !.off = @ + HeaderLen + r.e.size + 1]]

\* FoldWithHandler, one iteration: after the repair rep.
iterRepaired(s, r, rep) ==
    LET t == [s EXCEPT !.e = r.e, !.a = rep.a, !.io = rep.io]
    IN  IF rep.failed THEN [done |-> TRUE, s |-> [t EXCEPT !.ret = ErrCompletingLastEntry]]
        ELSE IF r.err = EOF THEN [done |-> TRUE, s |-> [t EXCEPT !.ret = Nil]]
        ELSE iterFolded(t, r, Fold(t.h, r.e))

\* FoldWithHandler, one iteration: after the read r of the shared entry.
iterRead(s, r) ==
    iterRepaired(s, r, IF r.mb > 0
                       THEN repair(s.a, r.io, r.mb)
                       ELSE [failed |-> FALSE, a |-> s.a, io |-> r.io])

\* FoldWithHandler, one iteration of the loop.
iterate(s) == iterRead(s, read([s.e EXCEPT !.off = s.off], s.io))

\* FoldWithHandler of goroutine p at its next iteration, the first one after
\* the seek to the start.
IterState(p) ==
    [io |-> IF proc[p].started THEN StepIO ELSE seek(StepIO, app.baseOffset, 0),
     a |-> app, e |-> sharedEntry, off |-> proc[p].off, h |-> proc[p].h,
     ret |-> Nil, seen |-> proc[p].seen,
     atFold |-> [file |-> file, wbuf |-> w.buf]]

\* What a step of a goroutine leaves alone.
observed == << last, appended, openFile, openedFile, opens, faults >>

\* Goroutine p calls op, outside every call or from within its reducer: Lock
\* returns.  Each goroutine appends one batch.
Lock(p, op) ==
    /\ proc[p].pc \in {"idle", "inner"}
    /\ proc[p].calls < MaxCalls
    /\ op = "AppendBulk" => proc[p].bss = << >>
    /\ lockableBy(mux, p)
    /\ mux' = p
    /\ proc' = [proc EXCEPT ![p] =
            IF op = "AppendBulk"
            THEN [@ EXCEPT !.pc = "run", !.op = op, !.calls = @ + 1, !.err = Nil,
                           !.bss = ProcBatch(p), !.i = 1, !.offs = << >>,
                           !.writtenBytes = 0, !.bulkAt = Len(file)]
            ELSE IF op = "ForEach"
            THEN [@ EXCEPT !.pc = "run", !.op = op, !.calls = @ + 1, !.err = Nil,
                           !.off = 0, !.h = NewHandler("forEach", 0, 0, ""),
                           !.seen = << >>, !.started = FALSE,
                           !.pre = [file |-> file, wbuf |-> w.buf, a |-> app,
                                    e |-> sharedEntry]]
            ELSE [@ EXCEPT !.pc = "run", !.op = op, !.calls = @ + 1, !.err = Nil]]
    /\ UNCHANGED << file, w, app, sharedEntry, rd >>
    /\ UNCHANGED observed

\* The Appender, its writer, the file and the reader after a step that left io.
Stepped(a, io) ==
    /\ file' = io.file
    /\ w' = [buf |-> io.wbuf, err |-> io.werr]
    /\ app' = a
    /\ rd' = [pos |-> io.pos, rbuf |-> io.rbuf, rfail |-> io.rfail, rstuck |-> io.rstuck]

\* AppendBulk of goroutine p returns r and unlocks.
BulkReturned(p, r) ==
    /\ Stepped(r.a, r.io)
    /\ proc' = [proc EXCEPT ![p] = [@ EXCEPT !.pc = "idle", !.err = r.err,
                                             !.offs = r.offs]]
    /\ mux' = 0

\* AppendBulk of goroutine p after r, the loop body for its item i.
BulkItemDone(p, r) ==
    IF r.err # Nil
    THEN BulkReturned(p, r)
    ELSE /\ Stepped(r.a, r.io)
         /\ proc' = [proc EXCEPT ![p] =
                [@ EXCEPT !.i = @ + 1,
                          !.offs = Append(@, itemOff(app.size, proc[p].writtenBytes)),
                          !.writtenBytes = @ + HeaderLen + Len(proc[p].bss[proc[p].i]) + 1]]
         /\ UNCHANGED mux

\* A step of AppendBulk in goroutine p: the check of closed with the first
\* item, an item, or the flush after the last one.
AppendBulkStep(p) ==
    /\ proc[p].pc = "run" /\ proc[p].op = "AppendBulk"
    /\ IF proc[p].i = 1 /\ app.closed
       THEN BulkReturned(p, [err |-> ErrAppenderClosed, offs |-> << >>, a |-> app,
                             io |-> StepIO])
       ELSE IF proc[p].i > Len(proc[p].bss)
       THEN BulkReturned(p, appendFlushed(app, proc[p].offs, proc[p].writtenBytes,
                                          wFlush(StepIO)))
       ELSE BulkItemDone(p, appendItem(app, StepIO, proc[p].bss[proc[p].i]))
    /\ UNCHANGED sharedEntry
    /\ UNCHANGED observed

\* The traversal of goroutine p after the iteration r; it unlocks when done.
Iterated(p, r) ==
    /\ Stepped(r.s.a, r.s.io)
    /\ sharedEntry' = r.s.e
    /\ proc' = [proc EXCEPT ![p] =
            [@ EXCEPT !.pc = IF r.done THEN "idle" ELSE "run", !.started = TRUE,
                      !.off = r.s.off, !.h = r.s.h, !.seen = r.s.seen,
                      !.err = r.s.ret]]
    /\ mux' = IF r.done THEN 0 ELSE mux

\* A step of ForEach in goroutine p: the check of closed and the seek with the
\* first iteration.
TraverseStep(p) ==
    /\ proc[p].pc = "run" /\ proc[p].op = "ForEach"
    /\ IF ~proc[p].started /\ app.closed
       THEN Iterated(p, [done |-> TRUE,
                         s |-> [IterState(p) EXCEPT !.ret = ErrAppenderClosed]])
       ELSE Iterated(p, iterate(IterState(p)))
    /\ UNCHANGED observed

\* Read of offset 0 in goroutine p returns r and unlocks.
ReadStepped(p, r) ==
    /\ rd' = [pos |-> r.io.pos, rbuf |-> r.io.rbuf, rfail |-> r.io.rfail,
              rstuck |-> r.io.rstuck]
    /\ proc' = [proc EXCEPT ![p] = [@ EXCEPT !.pc = "idle", !.err = r.err]]
    /\ mux' = 0
    /\ UNCHANGED << file, w, app, sharedEntry >>
    /\ UNCHANGED observed

\* Appender.Read in goroutine p.
ReadStep(p) ==
    /\ proc[p].pc = "run" /\ proc[p].op = "Read"
    /\ ReadStepped(p, readAt(app, StepIO, 0))

\* Appender.Close in goroutine p.
CloseStep(p) ==
    /\ proc[p].pc = "run" /\ proc[p].op = "Close"
    /\ app' = close(app, Nil)
    /\ proc' = [proc EXCEPT ![p] = [@ EXCEPT !.pc = "idle", !.err = Nil]]
    /\ mux' = 0
    /\ UNCHANGED << file, w, sharedEntry, rd >>
    /\ UNCHANGED observed

\* Goroutines calling AppendBulk, ForEach, Read and Close on one Appender.
NextConc ==
    \/ \E p \in Procs, op \in {"AppendBulk", "ForEach", "Read", "Close"} : Lock(p, op)
    \/ \E p \in Procs : AppendBulkStep(p)
    \/ \E p \in Procs : TraverseStep(p)
    \/ \E p \in Procs : ReadStep(p)
    \/ \E p \in Procs : CloseStep(p)

SpecConc == Init /\ [][NextConc]_vars

\* -------------------------------------------------------------- re-entrancy
\* The traversal of goroutine p after the iteration r, its reducer being one
\* that calls the Appender: when the iteration called the handler, the
\* goroutine is within the reducer, the mutex still locked.
Reentered(p, r) ==
    IF Len(r.s.seen) > Len(proc[p].seen)
    THEN /\ Stepped(r.s.a, r.s.io)
         /\ sharedEntry' = r.s.e
         /\ proc' = [proc EXCEPT ![p] =
                [@ EXCEPT !.pc = "inner", !.started = TRUE, !.seen = r.s.seen]]
         /\ UNCHANGED mux
    ELSE Iterated(p, r)

\* A step of ForEach in goroutine p with such a reducer.
ReenterStep(p) ==
    /\ proc[p].pc = "run" /\ proc[p].op = "ForEach"
    /\ IF ~proc[p].started /\ app.closed
       THEN Iterated(p, [done |-> TRUE,
                         s |-> [IterState(p) EXCEPT !.ret = ErrAppenderClosed]])
       ELSE Reentered(p, iterate(IterState(p)))
    /\ UNCHANGED observed

\* Goroutines calling one Appender, every reducer calling it again.
NextReenter ==
    \/ \E p \in Procs, op \in {"AppendBulk", "ForEach", "Read", "Close"} : Lock(p, op)
    \/ \E p \in Procs : AppendBulkStep(p)
    \/ \E p \in Procs : ReenterStep(p)
    \/ \E p \in Procs : ReadStep(p)
    \/ \E p \in Procs : CloseStep(p)

SpecReenter == Init /\ [][NextReenter]_vars

\* ------------------------------------------------------------- termination
\* A traversal, iteration by iteration, on a file of any content whose reads
\* may fail, once or from some read on.

\* The frames of the files found by OpenWithConfig: a header of any size up to
\* MaxStreamSize, zero included, the payload and any flag byte.
StreamFrames ==
    {writeInt(HeaderLen, n) \o Asc(n) \o << f >> :
        n \in 0..MaxStreamSize, f \in {0, fIncompleteEntry, fCompleteEntry}}

\* The files found by OpenWithConfig: up to two frames, the last one whole or
\* torn anywhere.
Streams ==
    {Take(a \o b, k) : a \in StreamFrames, b \in StreamFrames,
                       k \in 0..(2 * (HeaderLen + MaxStreamSize + 1))}

\* OpenWithConfig on an existing file: the Appender before the size scan.
InitLive ==
    /\ file \in Streams
    /\ w = [buf |-> << >>, err |-> FALSE]
    /\ app = NewAppender
    /\ sharedEntry = [off |-> 0, size |-> 0, bytes |-> Zeros(MaxEntrySize),
                      incomplete |-> FALSE]
    /\ last = Call("Open")
    /\ appended = << >>
    /\ openFile = file
    /\ openedFile = file
    /\ opens = 0
    /\ faults = 0
    /\ mux = 0
    /\ rd = [pos |-> 0, rbuf |-> << >>, rfail |-> -1, rstuck |-> FALSE]
    /\ proc = [p \in Procs |-> IdleProc]

\* The file starts failing: its read after k more fails, and with stuck every
\* read after that one.
ReadFault(k, stuck) ==
    /\ mux = 0 /\ rd.rfail = -1
    /\ rd' = [rd EXCEPT !.rfail = k, !.rstuck = stuck]
    /\ UNCHANGED << file, w, app, sharedEntry, mux, proc >>
    /\ UNCHANGED observed

\* The iteration r with the offset counter in its width; the entries handed to
\* the reducer are not kept, nor their number.
Narrow(r) ==
    [r EXCEPT !.s.off = @ % OffModulus, !.s.seen = << >>, !.s.h.n = 0]

\* A step of a traversal in goroutine p whose reducer returns, never cuts off
\* and never fails: one iteration of the loop of FoldWithHandler, the read of
\* the header, the rest of Entry.read, then the repair and the handler.
LiveStep(p) ==
    /\ proc[p].pc = "run" /\ proc[p].op = "ForEach"
    /\ \E s \in {IterState(p)} :
       \E h \in {rRead(s.io, HeaderLen)} :
       \E r \in {readHeader([s.e EXCEPT !.off = s.off], h)} :
       \E out \in {Narrow(iterRead(s, r))} : Iterated(p, out)
    /\ UNCHANGED observed

\* The goroutine that traverses.
Walker == CHOOSE p \in Procs : TRUE

NextLive ==
    \/ Lock(Walker, "ForEach")
    \/ LiveStep(Walker)
    \/ \E k \in 0..MaxReadFail, stuck \in BOOLEAN : ReadFault(k, stuck)

\* A goroutine inside a call keeps running.
SpecLive == InitLive /\ [][NextLive]_vars /\ WF_vars(LiveStep(Walker))

\* ================================================================== claims
\* The width of the size header and the length of the frame of a payload.
HeaderWidth == IF MaxEntrySize <= 65535 THEN 2 ELSE 4

FrameLen(bs) == HeaderWidth + Len(bs) + 1

\* The record a caller expects for the payload bs appended at offset off.
Record(off, bs) == [off |-> off, size |-> Len(bs), bytes |-> bs, incomplete |-> FALSE]

AppendedRecords == [i \in 1..Len(appended) |-> Record(appended[i].off, appended[i].bs)]

RECURSIVE SumFrames(_, _)
SumFrames(recs, n) == IF n = 0 THEN 0 ELSE SumFrames(recs, n - 1) + FrameLen(recs[n].bs)

IsAppend == last.op \in {"Append", "AppendBulk"}

IsTraversal == last.op \in {"ForEach", "Map", "FilteredMap", "Fold"}

\* C1: Read of the offset a successful Append returned gives, with no error,
\* the appended record: that offset, the payload's size and bytes, complete.
C1_RoundTrip ==
    (last.op = "Read" /\ ~last.pre.closed) =>
        \A i \in 1..Len(appended) :
            appended[i].off = last.off =>
                /\ last.err = Nil
                /\ last.e = Record(appended[i].off, appended[i].bs)

\* The whole frames of the stream f from position o on, as records.
RECURSIVE WholeFrames(_, _)
WholeFrames(f, o) ==
    IF o + HeaderWidth > Len(f) THEN << >>
    ELSE LET n == readInt(SubSeq(f, o + 1, o + HeaderWidth))
             end == o + HeaderWidth + n + 1
         IN  IF end > Len(f) THEN << >>
             ELSE << [off |-> o, size |-> n,
                      bytes |-> SubSeq(f, o + HeaderWidth + 1, o + HeaderWidth + n),
                      incomplete |-> (f[end] # fCompleteEntry)] >>
                  \o WholeFrames(f, end)

\* The position after the last whole frame of f.
WholeEnd(f) ==
    LET fr == WholeFrames(f, 0)
    IN  IF fr = << >> THEN 0 ELSE fr[Len(fr)].off + HeaderWidth + fr[Len(fr)].size + 1

\* f is complete frames followed by one truncated frame whose header is present.
TornTail(f) ==
    /\ Len(f) >= WholeEnd(f) + HeaderWidth
    /\ \A i \in 1..Len(WholeFrames(f, 0)) : ~WholeFrames(f, 0)[i].incomplete

\* C2: after Open of a stream of N complete frames and one truncated frame, a
\* traversal delivers exactly N+1 records: the N frames as they were, complete,
\* then one at the torn frame's offset, marked incomplete.
C2_TornTailRepair ==
    (/\ last.op = "ForEach" /\ last.pre.file = openedFile
     /\ last.cutAt = 0 /\ last.errAt = 0
     /\ ~last.pre.closed /\ ~last.wfailed
     /\ TornTail(openFile)) =>
        LET fr == WholeFrames(openFile, 0)
            n == Len(fr)
        IN  /\ last.err = Nil
            /\ Len(last.seen) = n + 1
            /\ SubSeq(last.seen, 1, n) = fr
            /\ last.seen[n + 1].off = WholeEnd(openFile)
            /\ last.seen[n + 1].incomplete

\* C3: on a log that started empty, a traversal that is never cut off hands
\* the reducer exactly the appended records, in append order, each complete;
\* a FilteredMap selecting the incomplete records returns nothing.
C3_TraversalComplete ==
    /\ (/\ last.op = "ForEach" /\ last.cutAt = 0 /\ last.errAt = 0
        /\ ~last.pre.closed /\ openFile = << >>) =>
            (last.err = Nil /\ last.seen = AppendedRecords)
    /\ (/\ last.op = "FilteredMap" /\ last.sel = "incomplete"
        /\ ~last.pre.closed /\ openFile = << >>) =>
            (last.err = Nil /\ last.vals = << >>)

\* C4: on a log opened over an empty stream, the offset of the i-th appended
\* record is the sum of the frame lengths of the records appended before it,
\* and the logical size is that sum over all appended records.
C4_OffsetAccounting ==
    openFile = << >> =>
        /\ \A i \in 1..Len(appended) : appended[i].off = SumFrames(appended, i - 1)
        /\ app.size = SumFrames(appended, Len(appended))

C4_Witness ==
    /\ last.op = "AppendBulk" /\ last.err = Nil /\ Len(last.offs) = 2
    /\ Len(appended) = 2 /\ appended[1].off = 0
    /\ appended[2].off = FrameLen(appended[1].bs)
    /\ app.size = FrameLen(appended[1].bs) + FrameLen(appended[2].bs)

\* C5: an AppendBulk that returns InvalidArguments or EntryExceedsMaxSize
\* leaves the stream, the pending write buffer and the logical size as they were.
C5_RejectionLeavesLogUnchanged ==
    (IsAppend /\ last.err \in {ErrInvalidArguments, ErrEntryExceedsMaxSize}) =>
        /\ file = last.pre.file
        /\ w.buf = last.pre.wbuf
        /\ app.size = last.pre.size

\* C6: when Open returns successfully the logical size is the number of bytes
\* of the stream from the base offset on; the offset the next Append returns
\* is where its frame is written, and Read of it returns the appended payload.
C6_SizeIsAppendPosition ==
    /\ (last.op = "Open" /\ last.err = Nil) => app.size = Len(file) - app.baseOffset
    /\ (last.op = "Append" /\ last.pre.file = openedFile /\ last.err = Nil) =>
            last.off = Len(last.pre.file) - app.baseOffset
    /\ (last.op = "Read" /\ ~last.pre.closed) =>
            \A i \in 1..Len(appended) :
                appended[i].off = last.off =>
                    (last.err = Nil /\ last.e = Record(appended[i].off, appended[i].bs))

\* What a later call returns once the Appender is closed.
FailsClosed ==
    (last.pre.closed /\ (IsAppend \/ IsTraversal \/ last.op = "Read")) =>
        (last.err = ErrAppenderClosed /\ app.closed)

\* C7: a call in which a write to the file fails returns UnexpectedWriteErr
\* (AppendBulk) or CompletingLastEntry (a traversal's repair) and no offsets,
\* leaves the logical size as it was and the Appender closed; every later
\* Append, AppendBulk, Read and traversal fails with AppenderClosed.
C7_WriteFailureIsFatal ==
    /\ last.wfailed =>
        /\ app.closed
        /\ last.offs = << >>
        /\ IsAppend => (last.err = ErrUnexpectedWriteErr /\ app.size = last.pre.size)
        /\ IsTraversal => (last.err = ErrCompletingLastEntry /\ app.size = last.pre.size)
        /\ last.op = "Open" => last.err = ErrCompletingLastEntry
    /\ FailsClosed

C7_Witness ==
    /\ last.op = "Append" /\ last.pre.closed /\ last.err = ErrAppenderClosed
    /\ app.err # Nil /\ app.fclose = 1

\* C8: once the Appender is closed it stays closed, and every Append,
\* AppendBulk, Read and traversal returns AppenderClosed, whatever its
\* arguments, writes nothing and calls no reducer.
C8_ClosedIsTerminal ==
    last.pre.closed =>
        /\ app.closed
        /\ (IsAppend \/ IsTraversal \/ last.op = "Read") =>
            /\ last.err = ErrAppenderClosed
            /\ file = last.pre.file /\ w.buf = last.pre.wbuf
            /\ app.size = last.pre.size
            /\ last.seen = << >> /\ last.vals = << >> /\ last.offs = << >>
            /\ last.e = NoEntry

C8_Witness ==
    /\ last.pre.closed /\ last.op = "AppendBulk" /\ last.bss = << >>
    /\ last.err = ErrAppenderClosed /\ file # << >>

\* C9: a traversal over a log of at least k records whose reducer cuts off on
\* the k-th record hands the reducer the first k records, in order, and
\* returns no error.
C9_Cutoff ==
    (/\ last.op = "ForEach" /\ ~last.pre.closed /\ openFile = << >>
     /\ last.cutAt >= 1 /\ last.errAt = 0
     /\ Len(appended) >= last.cutAt) =>
        (last.err = Nil /\ last.seen = SubSeq(AppendedRecords, 1, last.cutAt))

\* C10: when the reducer returns an error on a record, the traversal calls it
\* on no further record, returns that error, writes nothing after the call,
\* and leaves the Appender open with its logical size unchanged.
C10_ReducerError ==
    (IsTraversal /\ last.errAt >= 1 /\ Len(last.seen) >= last.errAt) =>
        /\ last.err = ErrReducer
        /\ Len(last.seen) = last.errAt
        /\ file = last.atFold.file /\ w.buf = last.atFold.wbuf
        /\ ~app.closed
        /\ app.size = last.pre.size

C10_Witness ==
    /\ last.op = "ForEach" /\ last.errAt = 1 /\ last.err = ErrReducer
    /\ Len(appended) = 2 /\ AppendedRecords[1] = last.seen[1]

\* C11: on an open Log, Append of an empty payload returns InvalidArguments,
\* Append of a payload one byte longer than the maximum returns
\* EntryExceedsMaxSize, a payload of 1 up to the maximum number of bytes is
\* accepted; Read of an offset below 0 or above the logical size returns
\* InvalidArguments, and no offset from 0 to the logical size does.
C11_RejectionBoundaries ==
    /\ (last.op = "Append" /\ ~last.pre.closed) =>
            /\ Len(last.bss[1]) = 0 => last.err = ErrInvalidArguments
            /\ Len(last.bss[1]) > MaxEntrySize => last.err = ErrEntryExceedsMaxSize
            /\ Len(last.bss[1]) \in 1..MaxEntrySize => last.err = Nil
    /\ (last.op = "Read" /\ ~last.pre.closed) =>
            /\ (last.off < 0 \/ last.off > last.pre.size) =>
                    (last.err = ErrInvalidArguments /\ last.e = NoEntry)
            /\ last.off \in 0..last.pre.size => last.err # ErrInvalidArguments

C11_Witness ==
    /\ last.op = "Read" /\ ~last.pre.closed
    /\ last.pre.size > 0 /\ last.off = last.pre.size
    /\ last.err = EOF

\* Goroutine p is between the Lock and the Unlock of a call.
InCall(p) == proc[p].pc = "run"

\* Goroutine p's AppendBulk has returned its offsets.
HasAppended(p) == proc[p].pc = "idle" /\ Len(proc[p].offs) = Len(ProcBatch(p))

\* The records of goroutine p's batch among those a traversal has seen.
SeenOf(seen, p) == {k \in 1..Len(seen) : seen[k].bytes = ProcBatch(p)[1]}

\* The bytes of goroutine p's batch, frame after frame.
BatchBytes(p) ==
    writeInt(HeaderWidth, Len(ProcBatch(p)[1])) \o ProcBatch(p)[1] \o << fCompleteEntry >>
    \o writeInt(HeaderWidth, Len(ProcBatch(p)[2])) \o ProcBatch(p)[2] \o << fCompleteEntry >>

\* The traversal of goroutine q, run alone on what it found when it locked.
Alone(q) ==
    FoldWithHandler(proc[q].pre.a,
                    [StartIO(NoFault) EXCEPT !.file = proc[q].pre.file,
                                             !.wbuf = proc[q].pre.wbuf],
                    proc[q].pre.e, NewHandler("forEach", 0, 0, ""))

\* C12: of the goroutines calling AppendBulk, Read, Close and ForEach on one
\* Appender at most one is inside a call.  A traversal starts on a stream that
\* holds all of another goroutine's batch or none of it, and delivers what it
\* would deliver running alone on that stream; the frames of a batch are
\* contiguous in the stream, and two batches get disjoint, increasing offsets.
C12_MutualExclusion ==
    /\ \A p, q \in Procs : (InCall(p) /\ InCall(q)) => p = q
    /\ \A p \in Procs : InCall(p) => mux = p
    /\ \A q \in Procs :
            (proc[q].op = "ForEach" /\ proc[q].calls > 0) =>
                \A p \in Procs :
                    proc[p].bulkAt >= 0 =>
                        \/ Len(proc[q].pre.file) <= proc[p].bulkAt
                        \/ /\ Len(proc[q].pre.file) >= proc[p].bulkAt + Len(BatchBytes(p))
                           /\ SubSeq(proc[q].pre.file, proc[p].bulkAt + 1,
                                     proc[p].bulkAt + Len(BatchBytes(p))) = BatchBytes(p)
    /\ \A q \in Procs :
            (proc[q].op = "ForEach" /\ proc[q].pc = "idle") =>
                /\ proc[q].seen = Alone(q).seen
                /\ proc[q].err = Alone(q).ret
    /\ \A p \in Procs :
            HasAppended(p) =>
                /\ SubSeq(file, proc[p].bulkAt + 1, proc[p].bulkAt + Len(BatchBytes(p)))
                        = BatchBytes(p)
                /\ proc[p].offs[2] = proc[p].offs[1] + FrameLen(ProcBatch(p)[1])
                /\ \A q \in Procs \ {p} :
                        HasAppended(q) =>
                            \A i \in 1..Len(proc[p].offs), j \in 1..Len(proc[q].offs) :
                                proc[p].offs[i] # proc[q].offs[j]

C12_Witness ==
    /\ HasAppended(1) /\ HasAppended(2)
    /\ proc[2].offs[1] = 0 /\ proc[1].offs[1] > proc[2].offs[2]
    /\ proc[1].op = "ForEach" /\ proc[1].pc = "idle"
    /\ Len(proc[1].seen) = Len(ProcBatch(1)) + Len(ProcBatch(2))

\* C13: every offset a successful Append or AppendBulk of one Log returns is
\* greater than every offset returned before it, whatever calls lie between;
\* the offsets of one AppendBulk increase in the order of its items.
C13_OffsetsIncrease ==
    /\ \A i, j \in 1..Len(appended) : i < j => appended[i].off < appended[j].off
    /\ (IsAppend /\ last.err = Nil) =>
            /\ \A i, j \in 1..Len(last.offs) : i < j => last.offs[i] < last.offs[j]
            /\ \A i \in 1..Len(last.offs) :
                    appended[Len(appended) - Len(last.offs) + i].off = last.offs[i]

C13_Witness ==
    /\ last.op = "Append" /\ last.err = Nil
    /\ Len(appended) = 2 /\ last.off = appended[2].off
    /\ appended[1].off < appended[2].off

\* The frame that starts at position o of the stream f runs past its end.
TornAt(f, o) ==
    /\ o < Len(f)
    /\ \/ Len(f) - o < HeaderWidth
       \/ o + HeaderWidth + readInt(SubSeq(f, o + 1, o + HeaderWidth)) + 1 > Len(f)

\* C14: a Read of an offset from 0 to the logical size writes nothing to the
\* stream or the write buffer and leaves the logical size and the Appender
\* open; when the frame at that offset is torn, the record returned is at
\* that offset and marked incomplete.
C14_ReadNeverRepairs ==
    (last.op = "Read" /\ ~last.pre.closed /\ last.off \in 0..last.pre.size) =>
        /\ file = last.pre.file
        /\ w.buf = last.pre.wbuf
        /\ app.size = last.pre.size
        /\ ~app.closed
        /\ TornAt(file, last.off) => (last.e.off = last.off /\ last.e.incomplete)

C14_Witness ==
    /\ last.op = "Read" /\ ~last.pre.closed /\ last.off = 0
    /\ TornAt(file, 0) /\ Len(file) > HeaderWidth
    /\ last.e.incomplete /\ last.err = EOF

\* The records of the whole frames of the file.
FileRecords == WholeFrames(file, 0)

\* C15: a call in which a read of the file fails with an error other than
\* end-of-stream returns UnexpectedReadError, writes nothing and leaves the
\* Appender open; a traversal has then called the reducer only on the frames
\* decoded before the failure.
C15_ReadFailureSurfaces ==
    (last.rfailed /\ ~last.pre.closed) =>
        /\ last.err = ErrUnexpectedReadError
        /\ file = last.pre.file /\ w.buf = last.pre.wbuf
        /\ ~app.closed
        /\ IsTraversal =>
                /\ Len(last.seen) <= Len(FileRecords)
                /\ last.seen = SubSeq(FileRecords, 1, Len(last.seen))

\* f is complete frames followed by the first bytes of one more frame: part of
\* its header, or its header with part of its payload or without its flag.
TornShape(f) ==
    /\ Len(f) > WholeEnd(f)
    /\ \A i \in 1..Len(WholeFrames(f, 0)) : ~WholeFrames(f, 0)[i].incomplete

C17_RepairThenStop ==
    (last.op = "Open" /\ TornShape(openFile) /\ ~last.wfailed) =>
        /\ last.err = Nil
        /\ Len(file) > Len(openFile)
        /\ last.seen = WholeFrames(openFile, 0)

\* The header of the frame starting at position o of f, the bytes that are
\* absent read as zero.
PaddedHeader(f, o) == [i \in 1..HeaderWidth |-> IF o + i <= Len(f) THEN f[o + i] ELSE 0]

\* C18: repairing a torn last frame at offset o whose header decodes to size s
\* appends exactly the absent bytes: the stream then ends at
\* o + header width + s + 1, the bytes that were present are kept, and the
\* appended bytes are zero except the last, which is the incomplete flag.
C18_RepairPadsExactly ==
    (last.op = "Open" /\ TornShape(openFile) /\ ~last.wfailed) =>
        LET o == WholeEnd(openFile)
            end == o + HeaderWidth + readInt(PaddedHeader(openFile, o)) + 1
        IN  /\ Len(file) = end
            /\ SubSeq(file, 1, Len(openFile)) = openFile
            /\ \A i \in (Len(openFile) + 1)..(end - 1) : file[i] = 0
            /\ file[end] = fIncompleteEntry

\* The first Read of the payload of the frame at position o of f, after the
\* Read of its header, returns fewer bytes than the payload has.
FirstReadShort(f, o, size) ==
    Len(rRead(rRead([StartIO(NoFault) EXCEPT !.file = f, !.pos = o], HeaderLen).io,
              size).data) < size

\* fr is a whole frame of f whose payload the reader delivers in several short
\* reads, with enough bytes after it that no Read is at the end of the stream.
ShortReadFrame(f, fr) ==
    /\ fr.size > 0
    /\ FirstReadShort(f, fr.off, fr.size)
    /\ Len(f) >= fr.off + HeaderWidth + fr.size + 1 + ReaderBufSize

\* C19: decoding a whole frame whose payload arrives in several short reads,
\* none at the end of the stream, yields the frame's payload bytes in order
\* and its flag, and finds no byte missing.
C19_ShortReadsRetried ==
    (last.op = "Read" /\ ~last.pre.closed) =>
        \A i \in 1..Len(FileRecords) :
            (FileRecords[i].off = last.off /\ ShortReadFrame(file, FileRecords[i])) =>
                /\ last.err = Nil
                /\ last.e = FileRecords[i]
                /\ read(NewEntry(last.off), seek(StartIO(NoFault), app.baseOffset, last.off)).mb = 0

\* C20: a traversal over a stream that is a sequence of whole frames, whatever
\* its length and its flag bytes, writes nothing: the stream is afterwards
\* byte for byte what it was.
C20_WholeStreamUntouched ==
    (/\ IsTraversal /\ ~last.pre.closed
     /\ WholeEnd(last.pre.file) = Len(last.pre.file)) =>
        file = last.pre.file

\* C21: a traversal whose reducer returns, never cuts off and never fails
\* returns, whatever the stream holds and whatever its reads return.
C21_TraversalTerminates ==
    (proc[Walker].pc = "run") ~> (proc[Walker].pc = "idle")

\* Append(p1); ...; Append(pn) from item i on: each is AppendBulk of the one
\* payload, run by r, the outcome of the one before; offs are the offsets
\* returned so far.
RECURSIVE AppendEach(_, _, _, _)
RECURSIVE AppendEachStep(_, _, _, _)
AppendEach(bss, i, offs, r) ==
    IF i > Len(bss) \/ r.err # Nil
    THEN [err |-> r.err, offs |-> offs, a |-> r.a, io |-> r.io]
    ELSE AppendEachStep(bss, i, offs, appendBulk(r.a, r.io, << bss[i] >>))

\* Append returns offs[0] of its AppendBulk, or 0 and the error.
AppendEachStep(bss, i, offs, r) ==
    AppendEach(bss, i + 1, IF r.err = Nil THEN Append(offs, r.offs[1]) ELSE offs, r)

\* The state an AppendBulk started from, as the outcome of a call before it.
BeforeCall ==
    [err |-> Nil, offs |-> << >>,
     a |-> [app EXCEPT !.size = last.pre.size, !.closed = last.pre.closed],
     io |-> [StartIO(NoFault) EXCEPT !.file = last.pre.file, !.wbuf = last.pre.wbuf]]

ValidBatch(bss) ==
    Len(bss) > 0 /\ \A i \in 1..Len(bss) : Len(bss[i]) \in 1..MaxEntrySize

\* What AppendBulk left and returned is what the sequence r of Appends does.
SameAsEach(r) ==
    /\ r.err = last.err
    /\ r.offs = last.offs
    /\ r.io.file = file
    /\ r.io.wbuf = w.buf
    /\ r.a.size = app.size

\* C22: AppendBulk of a non-empty batch of valid payloads on an open log
\* leaves the file, the writer's buffer and the logical size as the Appends of
\* its payloads do, one after the other from the same state, and returns the
\* offsets they return in their order; the i-th offset is the logical size
\* before the call plus the frame lengths of the payloads before the i-th.
C22_BulkIsSequence ==
    (last.op = "AppendBulk" /\ ValidBatch(last.bss) /\ ~last.pre.closed) =>
        /\ SameAsEach(AppendEach(last.bss, 1, << >>, BeforeCall))
        /\ last.err = Nil
        /\ Len(last.offs) = Len(last.bss)
        /\ \A i \in 1..Len(last.bss) :
                last.offs[i] = last.pre.size
                    + SumFrames([j \in 1..Len(last.bss) |-> [bs |-> last.bss[j]]], i - 1)

C22_Witness ==
    /\ last.op = "AppendBulk" /\ ValidBatch(last.bss) /\ ~last.pre.closed
    /\ Len(last.bss) = 2 /\ last.bss[1] # last.bss[2]
    /\ last.offs = << last.pre.size, last.pre.size + FrameLen(last.bss[1]) >>
    /\ app.size = last.pre.size + FrameLen(last.bss[1]) + FrameLen(last.bss[2])

\* The records a FilterFn that names them by last.sel includes.
Selected(r) ==
    /\ last.sel = "short" => r.size = 1
    /\ last.sel = "incomplete" => r.incomplete

RECURSIVE SumSizes(_, _)
SumSizes(recs, n) == IF n = 0 THEN 0 ELSE SumSizes(recs, n - 1) + recs[n].size

\* C23: a Map, FilteredMap or Fold traversal whose callback fails on the k-th
\* record it is handed returns that error and, with it, the values of the
\* records before the k-th in their order and nothing for the k-th (Map,
\* FilteredMap: of those the filter included), or the accumulator as the step
\* before the k-th left it (Fold).
C23_PartialResultsSurvive ==
    /\ (/\ last.op \in {"Map", "Fold"}
        /\ last.errAt >= 1 /\ Len(last.seen) >= last.errAt) =>
            (last.err = ErrReducer /\ Len(last.seen) = last.errAt)
    /\ (last.op \in {"Map", "Fold", "FilteredMap"} /\ last.err \in {ErrReducer, ErrFilter}) =>
            /\ Len(last.seen) >= 1
            /\ last.op = "Map" =>
                    /\ last.errAt = Len(last.seen)
                    /\ last.vals = [i \in 1..(Len(last.seen) - 1) |-> last.seen[i].size]
            /\ last.op = "Fold" =>
                    /\ last.errAt = Len(last.seen)
                    /\ last.v = SumSizes(last.seen, Len(last.seen) - 1)
            /\ last.op = "FilteredMap" =>
                    last.vals = SelectSeq(SubSeq(last.seen, 1, Len(last.seen) - 1),
                                          Selected)

C23_Witness ==
    /\ last.op = "Map" /\ last.errAt = 2 /\ last.err = ErrReducer
    /\ Len(appended) = 2 /\ Len(last.seen) = 2
    /\ last.vals = << Len(appended[1].bs) >>

\* FilteredMap, step k: the filter failed; it included the record; the number
\* of records it included up to the k-th, which is the invocation of the
\* transform at step k; the transform failed; the step's cutoff.
FilterFailed(k) == last.ferrAt = k
Included(k) == ~FilterFailed(k) /\ Selected(last.seen[k])
Transforms(k) == Cardinality({j \in 1..k : Included(j)})
TransformFailed(k) == Included(k) /\ last.errAt = Transforms(k)
StepCutoff(k) == last.fcutAt = k \/ (Included(k) /\ last.cutAt = Transforms(k))
StepFailed(k) == FilterFailed(k) \/ TransformFailed(k)

\* The values of the first k steps.
RECURSIVE Kept(_)
Kept(k) ==
    IF k = 0 THEN << >>
    ELSE IF Included(k) /\ ~TransformFailed(k) THEN Append(Kept(k - 1), last.seen[k])
    ELSE Kept(k - 1)

\* C24: FilteredMap invokes the filter on each record up to the one it stops at,
\* the transform on those the filter included without error and on no other,
\* and returns the values of the transforms that did not fail; it goes on to
\* the next record only after a step without error whose filter and transform
\* (if invoked) did not cut off, the filter's cutoff counting on a record it
\* excludes as well, and, when it has nothing to repair, stops before the last
\* appended record only at a step that failed or cut off.
C24_FilteredMapSteps ==
    (last.op = "FilteredMap" /\ ~last.pre.closed) =>
        /\ last.fn = Len(last.seen)
        /\ last.n = Transforms(Len(last.seen))
        /\ last.vals = Kept(Len(last.seen))
        /\ \A k \in 1..(Len(last.seen) - 1) : ~StepCutoff(k) /\ ~StepFailed(k)
        /\ (file = last.pre.file /\ Len(last.seen) < Len(appended)) =>
                /\ Len(last.seen) > 0
                /\ StepCutoff(Len(last.seen)) \/ StepFailed(Len(last.seen))
        /\ last.err = IF Len(last.seen) = 0 THEN Nil
                      ELSE IF FilterFailed(Len(last.seen)) THEN ErrFilter
                      ELSE IF TransformFailed(Len(last.seen)) THEN ErrReducer
                      ELSE Nil

C24_Witness ==
    /\ last.op = "FilteredMap" /\ last.sel = "short" /\ last.fcutAt = 1
    /\ Len(appended) = 2 /\ appended[1].bs # << 1 >>
    /\ Len(last.seen) = 1 /\ last.n = 0 /\ last.vals = << >> /\ last.err = Nil

\* C25: f.Close is called at most once on the file of an Appender, whatever
\* calls follow one another, and Close leaves the cause that a failed write
\* recorded when it closed the Appender.
C25_ReleasedOnce ==
    /\ [](app.fclose <= 1)
    /\ [][(app.closed /\ app.err # Nil) => app'.err = app.err]_vars

\* C26: with every base offset b, on a file that was empty or held b bytes of
\* header when it was opened, the first b bytes of the file stay as they were,
\* the first appended record gets offset 0, Read of the offset of an appended
\* record returns that record, and a traversal hands the reducer the appended
\* records in order.
C26_BaseOffsetIndependence ==
    /\ Take(file, app.baseOffset) = Take(openFile, app.baseOffset)
    /\ Len(appended) >= 1 => appended[1].off = 0
    /\ \A i \in 1..Len(appended) :
            (last.op = "Read" /\ last.off = appended[i].off) =>
                (last.err = Nil /\ last.e = AppendedRecords[i])
    /\ last.op = "ForEach" => (last.err = Nil /\ last.seen = AppendedRecords)

\* Goroutine p is within a reducer of its traversal.
Inside(p) == proc[p].pc = "inner"

\* C27: a goroutine whose reducer calls the Appender it traverses never leaves
\* the reducer: the call it makes waits for the mutex its own traversal holds,
\* so the traversal does not return, the mutex stays locked, and no call of
\* another goroutine begins.
C27_ReentrancyDeadlocks ==
    [][\A p \in Procs : Inside(p) =>
            /\ mux = p /\ mux' = p
            /\ Inside(p)'
            /\ \A q \in Procs \ {p} : proc[q].pc = "idle" /\ proc'[q] = proc[q]]_vars

C27_Witness ==
    \E p \in Procs, q \in Procs :
        /\ p # q /\ Inside(p) /\ mux = p
        /\ proc[p].calls < MaxCalls /\ proc[q].calls < MaxCalls
        /\ proc[q].pc = "idle"

\* The records among the first k handed to the filter that it included.
RECURSIVE Chosen(_)
Chosen(k) ==
    IF k = 0 THEN << >>
    ELSE IF Included(k) THEN Append(Chosen(k - 1), last.seen[k])
    ELSE Chosen(k - 1)

\* C28: Filter returns one element for each record its predicate included
\* without error, in the order of the traversal, and once it has returned the
\* i-th element shows the offset, the size and the payload of the i-th record
\* included.
C28_FilterReturnsSelected ==
    last.op = "Filter" => last.vals = Chosen(Len(last.seen))

====
